---- MODULE Spec2Model ----
(***************************************************************************)
(* Voice assistant: the conversation state machine of main.rs, the voice   *)
(* activity detector and wake-word matcher of voice_detection.rs, and the  *)
(* capture and resampling of audio.rs.                                     *)
(*                                                                         *)
(* Amplitudes and RMS values are f32 in the source.  Here they are         *)
(* integers in thousandths (0.02 is 20, 0.01 is 10); a square root is the  *)
(* integer square root.  The factor 2.5 of the dynamic threshold is kept   *)
(* exact by comparing doubled values.  Text is a sequence of one-character *)
(* strings.                                                                *)
(***************************************************************************)
EXTENDS Integers, Sequences, FiniteSets, TLC

VARIABLES
    state,            \* VoiceAssistant.state
    is_active,        \* VoiceAssistant.is_active
    command_history,  \* VoiceAssistant.command_history
    energy_history,   \* VoiceDetector.energy_history
    noise_floor,      \* VoiceDetector.noise_floor
    pc,               \* position of the control loop
    samples,          \* local of process_interaction: the captured buffer
    text,             \* local of process_interaction: the transcribed text
    cycles,           \* number of orchestration cycles begun
    startState,       \* history variable: state when the cycle began
    history0,         \* history variable: command_history when the cycle began
    trace,            \* history variable: calls and transitions of this cycle
    vadActive,        \* history variable: what is_voice_active returned this cycle
    vadSilent,        \* history variable: what detect_silence returned this cycle
    call,             \* detector harness: the last call and its result
    prev,             \* detector harness: the call before it
    det0,             \* detector harness: detector state before the last call
    ncalls,           \* detector harness: calls made
    observed,         \* history variable: every RMS fed to the noise-floor tracker
    activation_word,  \* VoiceDetector.activation_word
    recorded,         \* history variable: every pair handed to add_to_history
    recording,        \* AudioCapture.recording
    stream,           \* record: the input stream, from build to drop
    channel,          \* record: samples queued between tx and rx
    callback,         \* the audio thread: the data callback it is running
    ncallbacks,       \* data callbacks the audio thread has begun
    sent,             \* history variable: every sample tx.send has queued
    original_rate,    \* record: config.sample_rate
    resampled,        \* record: the buffer the resampling loop builds
    reads             \* history variable: the indices the resampling loop read

vars == <<state, is_active, command_history, energy_history, noise_floor, pc,
          samples, text, cycles, startState, history0, trace, vadActive,
          vadSilent, call, prev, det0, ncalls, observed, activation_word,
          recorded, recording, stream, channel, callback, ncallbacks, sent,
          original_rate, resampled, reads>>

assistantVars == <<state, is_active, command_history, recorded, pc, text,
                   cycles, startState, history0, trace, vadActive, vadSilent>>

detectorVars == <<energy_history, noise_floor, observed>>

harnessVars == <<call, prev, det0, ncalls>>

captureVars == <<recording, stream, channel, callback, ncallbacks, sent,
                 original_rate, resampled, reads>>

-----------------------------------------------------------------------------
(* Bounds of the model *)

MaxLen == 5         \* longest buffer the 5 s window of Listening returns
MaxWakeLen == 1     \* longest buffer the 2 s window of AwaitingWakeWord returns
MaxCycles == 4      \* orchestration cycles explored
MaxDetLen == 4      \* longest buffer handed to the detector harness
MaxCalls == 2       \* detector calls explored by the harness
MaxWindow == 2      \* largest window_size handed to is_voice_active
MaxRate == 4        \* largest sample_rate handed to detect_silence
MaxTextLen == 3     \* longest text the matcher harness enumerates
MaxRecLen == 5      \* longest buffer handed to the resampling harness
MaxCallbacks == 3   \* data callbacks the audio thread runs during one record
MaxCallbackLen == 2 \* longest buffer one data callback is handed

(* Sample amplitudes after the noise gate: silence and 0.04 *)
Amplitudes == {0, 40}

-----------------------------------------------------------------------------
(* Program constants *)

energy_threshold == 20        \* VoiceDetector::new(0.02, ..)
DefaultNoiseFloor == 10       \* noise_floor: 0.01
history_size == 50
consecutive_threshold == 3
max_history == 10
TargetRate == 16000           \* if original_rate != 16000
NOISE_GATE_THRESHOLD == 20    \* const NOISE_GATE_THRESHOLD: f32 = 0.02

(* The call sites is_voice_active(&samples, 1024) and                      *)
(* detect_silence(&samples, 16000), scaled down with the buffers: the      *)
(* silence window (8000 samples, here SampleRate \div 2) spans several     *)
(* activity windows (1024 samples, here FrameWindow).                      *)
FrameWindow == 1
SampleRate == 4

-----------------------------------------------------------------------------
(* Helpers *)

Max(a, b) == IF a >= b THEN a ELSE b
Min(a, b) == IF a <= b THEN a ELSE b

Range(s) == {s[i] : i \in DOMAIN s}

AllZero(s) == \A i \in DOMAIN s : s[i] = 0

SeqsUpTo(S, n) == UNION {[1..k -> S] : k \in 0..n}

Isqrt(x) == CHOOSE r \in 0..x : r * r <= x /\ (r + 1) * (r + 1) > x

RECURSIVE SumSquares(_)
SumSquares(s) ==
    IF s = <<>> THEN 0 ELSE Head(s) * Head(s) + SumSquares(Tail(s))

(* sort_by(partial_cmp): the ascending permutation of s *)
SortAscending(s) ==
    [k \in 1..Len(s) |->
        CHOOSE v \in Range(s) :
            /\ Cardinality({i \in DOMAIN s : s[i] < v}) < k
            /\ Cardinality({i \in DOMAIN s : s[i] <= v}) >= k]

-----------------------------------------------------------------------------
(* voice_detection.rs: VoiceDetector *)

calculate_rms(chunk) ==
    IF chunk = <<>> THEN 0
    ELSE Isqrt(SumSquares(chunk) \div Len(chunk))

(* Mutant: reads energies[index] without the max(1) - 1 shift *)
PickFloor_NoShift(hist, old) ==
    LET energies == SortAscending(hist)
        index == Len(hist) \div 10    \* energies.len(): the copy is as long
    IN  IF hist # <<>> THEN energies[Min(index + 1, Len(hist))] ELSE old

(* The 10th-percentile pick of update_noise_floor: index is 0-based in    *)
(* the source, sequences here are 1-based.                                *)
PickFloor(hist, old) ==
    LET energies == SortAscending(hist)
        index == Len(hist) \div 10    \* energies.len(): the copy is as long
    IN  IF hist # <<>> THEN energies[(Max(index, 1) - 1) + 1] ELSE old

(* Mutant: evicts the newest value instead of the oldest *)
update_noise_floor_EvictNewest(d, rms) ==
    LET pushed == Append(d.energy_history, rms)
        hist == IF Len(pushed) > history_size
                THEN SubSeq(pushed, 1, Len(pushed) - 1) ELSE pushed
    IN  [energy_history |-> hist,
         noise_floor |-> PickFloor(hist, d.noise_floor)]

(* d is the detector's mutable state [energy_history, noise_floor] *)
update_noise_floor(d, rms) ==
    LET pushed == Append(d.energy_history, rms)
        hist == IF Len(pushed) > history_size THEN Tail(pushed) ELSE pushed
    IN  [energy_history |-> hist,
         noise_floor |-> PickFloor(hist, d.noise_floor)]

(* samples.chunks(window_size): window_size > 0 *)
NumChunks(s, window_size) == (Len(s) + window_size - 1) \div window_size

Chunk(s, window_size, j) ==
    SubSeq(s, (j - 1) * window_size + 1, Min(j * window_size, Len(s)))

(* rms > energy_threshold.max(noise_floor * 2.5), both sides doubled *)
ExceedsThreshold(rms, floor) == 2 * rms > Max(2 * energy_threshold, 5 * floor)

(* Mutant: the consecutive counter is not reset by a quiet frame *)
RECURSIVE ActiveLoop_NoReset(_, _, _, _, _)
ActiveLoop_NoReset(d, s, window_size, j, consecutive_active) ==
    IF j > NumChunks(s, window_size)
    THEN [ret |-> FALSE, det |-> d, seen |-> j - 1]
    ELSE LET rms == calculate_rms(Chunk(s, window_size, j))
             d2 == update_noise_floor(d, rms)
         IN  IF ExceedsThreshold(rms, d2.noise_floor)
             THEN IF consecutive_active + 1 >= consecutive_threshold
                  THEN [ret |-> TRUE, det |-> d2, seen |-> j]
                  ELSE ActiveLoop_NoReset(d2, s, window_size, j + 1,
                          consecutive_active + 1)
             ELSE ActiveLoop_NoReset(d2, s, window_size, j + 1, consecutive_active)

(* The loop of is_voice_active from chunk j on.  The result carries the    *)
(* return value, the detector state left behind and the number of chunks   *)
(* the loop has read.                                                      *)
RECURSIVE ActiveLoop(_, _, _, _, _)
ActiveLoop(d, s, window_size, j, consecutive_active) ==
    IF j > NumChunks(s, window_size)
    THEN [ret |-> FALSE, det |-> d, seen |-> j - 1]
    ELSE LET rms == calculate_rms(Chunk(s, window_size, j))
             d2 == update_noise_floor(d, rms)
         IN  IF ExceedsThreshold(rms, d2.noise_floor)
             THEN IF consecutive_active + 1 >= consecutive_threshold
                  THEN [ret |-> TRUE, det |-> d2, seen |-> j]
                  ELSE ActiveLoop(d2, s, window_size, j + 1,
                          consecutive_active + 1)
             ELSE ActiveLoop(d2, s, window_size, j + 1, 0)

(* Mutant: the consecutive counter is not reset by a quiet frame *)
is_voice_active_NoReset(d, s, window_size) ==
    ActiveLoop_NoReset(d, s, window_size, 1, 0)

(* Mutant: the frame is compared with the floor of the frames before it *)
RECURSIVE ActiveLoop_StaleFloor(_, _, _, _, _)
ActiveLoop_StaleFloor(d, s, window_size, j, consecutive_active) ==
    IF j > NumChunks(s, window_size)
    THEN [ret |-> FALSE, det |-> d, seen |-> j - 1]
    ELSE LET rms == calculate_rms(Chunk(s, window_size, j))
             d2 == update_noise_floor(d, rms)
         IN  IF ExceedsThreshold(rms, d.noise_floor)
             THEN IF consecutive_active + 1 >= consecutive_threshold
                  THEN [ret |-> TRUE, det |-> d2, seen |-> j]
                  ELSE ActiveLoop_StaleFloor(d2, s, window_size, j + 1,
                          consecutive_active + 1)
             ELSE ActiveLoop_StaleFloor(d2, s, window_size, j + 1, 0)

is_voice_active_StaleFloor(d, s, window_size) ==
    ActiveLoop_StaleFloor(d, s, window_size, 1, 0)

(* The detector after chunks j.. of s were fed to the tracker *)
RECURSIVE FeedRest(_, _, _, _)
FeedRest(d, s, window_size, j) ==
    IF j > NumChunks(s, window_size) THEN d
    ELSE FeedRest(update_noise_floor(d, calculate_rms(Chunk(s, window_size, j))),
                  s, window_size, j + 1)

(* Mutant: the verdict is returned after the loop, not from inside it *)
is_voice_active_NoEarlyReturn(d, s, window_size) ==
    LET r == ActiveLoop(d, s, window_size, 1, 0)
    IN  [r EXCEPT !.det = FeedRest(r.det, s, window_size, r.seen + 1),
                  !.seen = NumChunks(s, window_size)]

is_voice_active(d, s, window_size) == ActiveLoop(d, s, window_size, 1, 0)

(* Mutant: the negation is forgotten *)
detect_silence_NoNegation(d, s, sample_rate) ==
    is_voice_active(d, s, sample_rate \div 2)

(* Mutant: the window is rounded instead of truncated *)
detect_silence_Rounded(d, s, sample_rate) ==
    LET r == is_voice_active(d, s, (sample_rate + 1) \div 2)
    IN  [r EXCEPT !.ret = ~r.ret]

(* silence_duration is 0.5; `as usize` truncates *)
detect_silence(d, s, sample_rate) ==
    LET window_size == sample_rate \div 2
        r == is_voice_active(d, s, window_size)
    IN  [r EXCEPT !.ret = ~r.ret]

(* to_lowercase over the characters the model's texts use *)
LowerChar(c) ==
    CASE c = "Y" -> "y"
      [] c = "O" -> "o"
      [] c = "H" -> "h"
      [] OTHER -> c

(* The UTF-8 width of a character: str::len counts bytes *)
Utf8Width(c) == IF c = "é" THEN 2 ELSE 1

RECURSIVE str_len(_)
str_len(t) == IF t = <<>> THEN 0 ELSE Utf8Width(Head(t)) + str_len(Tail(t))

to_lowercase(t) == [i \in DOMAIN t |-> LowerChar(t[i])]

(* str::contains *)
contains(t, p) ==
    \E i \in 0..(Len(t) - Len(p)) : SubSeq(t, i + 1, i + Len(p)) = p

(* str::split_whitespace: the maximal runs of non-blank characters *)
RECURSIVE SplitFrom(_, _, _, _)
SplitFrom(t, i, word, words) ==
    IF i > Len(t)
    THEN IF word = <<>> THEN words ELSE Append(words, word)
    ELSE IF t[i] = " "
         THEN SplitFrom(t, i + 1, <<>>,
                        IF word = <<>> THEN words ELSE Append(words, word))
         ELSE SplitFrom(t, i + 1, Append(word, t[i]), words)

split_whitespace(t) == SplitFrom(t, 1, <<>>, <<>>)

levenshtein_distance(s1, s2) ==
    LET len1 == Len(s1)
        len2 == Len(s2)
        matrix[i \in 0..len1, j \in 0..len2] ==
            IF j = 0 THEN i
            ELSE IF i = 0 THEN j
            ELSE LET cost == IF s1[i] = s2[j] THEN 0 ELSE 1
                 IN  Min(Min(matrix[i - 1, j] + 1, matrix[i, j - 1] + 1),
                         matrix[i - 1, j - 1] + cost)
    IN  matrix[len1, len2]

(* VoiceDetector::new(.., activation_word): activation_word.to_lowercase(), *)
(* whatever the phrase is                                                  *)
NewActivationWord(phrase) == to_lowercase(phrase)

(* VoiceDetector::new(0.02, 0.5, "yo") *)
WakePhrase == <<"y", "o">>

matches_wake_word(t) ==
    LET lowered == to_lowercase(t)
        words == split_whitespace(lowered)
    IN  \/ contains(lowered, activation_word)
        \/ \E k \in DOMAIN words :
              /\ str_len(words[k]) >= 2
              /\ levenshtein_distance(words[k], activation_word) <= 1
        \/ contains(lowered, <<"y", "o">>)
        \/ contains(lowered, <<"y", "o", "o">>)
        \/ contains(lowered, <<"y", "o", "u">>)
        \/ contains(lowered, <<"y", "e", "a", "h">>)


(* VoiceDetector::new *)
NewDetector == [energy_history |-> <<>>, noise_floor |-> DefaultNoiseFloor]

-----------------------------------------------------------------------------
(* Detector harness: one detector, one buffer, any sequence of             *)
(* is_voice_active and detect_silence calls on it.  The detector starts    *)
(* fresh or in the state a fresh detector reaches by observing a prefix of *)
(* quiet frames followed by loud ones (one frame per call with window 1).  *)

(* The detector after observing the RMS values rmss (at most history_size *)
(* of them) one by one: the history holds them all, and the floor is the  *)
(* one the last observation computed.                                     *)
Observe(rmss) ==
    IF rmss = <<>> THEN NewDetector
    ELSE update_noise_floor(
             [energy_history |-> SubSeq(rmss, 1, Len(rmss) - 1),
              noise_floor |-> DefaultNoiseFloor],
             rmss[Len(rmss)])

PrefillLens == {0, 18, history_size - 1}
PrefillQuiet == {0, 1, 5}
Prefill(n, z) == [i \in 1..n |-> IF i <= z THEN 0 ELSE 40]
PrefillHistories == {Prefill(n, z) : n \in PrefillLens, z \in PrefillQuiet}

(* A buffer of more frames than the history holds, loud throughout *)
LongBuffers == {[i \in 1..(history_size + 2) |-> 40]}

(* Buffers that grow louder after a first loud sample: 0.04, then 0.11 *)
RisingBuffers == {<<40, 110, 110>>, <<40, 110, 110, 110>>}

NoCall == [op |-> "none", arg |-> 0, ret |-> FALSE, seen |-> 0]

FramesSeen(s, window_size, n) ==
    [j \in 1..n |-> calculate_rms(Chunk(s, window_size, j))]

(* AudioCapture::new, and no record call under way *)
NoCallback == [at |-> "idle", observed |-> FALSE, data |-> <<>>]

CaptureIdle ==
    /\ recording = FALSE
    /\ stream = "none"
    /\ channel = <<>>
    /\ callback = NoCallback
    /\ ncallbacks = 0
    /\ sent = <<>>
    /\ original_rate = 0
    /\ resampled = <<>>
    /\ reads = {}

AssistantIdle ==
    /\ state = "Idle"
    /\ is_active = FALSE
    /\ command_history = <<>>
    /\ recorded = <<>>
    /\ text = <<>>
    /\ cycles = 0
    /\ startState = "none"
    /\ history0 = <<>>
    /\ trace = <<>>
    /\ vadActive = "none"
    /\ vadSilent = "none"

InitDetector ==
    /\ AssistantIdle
    /\ CaptureIdle
    /\ activation_word = NewActivationWord(WakePhrase)
    /\ pc = "harness"
    /\ samples \in SeqsUpTo(Amplitudes, MaxDetLen) \cup LongBuffers
                   \cup RisingBuffers
    /\ \E pre \in PrefillHistories : \E d \in {Observe(pre)} :
          /\ energy_history = d.energy_history
          /\ noise_floor = d.noise_floor
          /\ observed = pre
    /\ call = NoCall
    /\ prev = NoCall
    /\ det0 = NewDetector
    /\ ncalls = 0

Detector == [energy_history |-> energy_history, noise_floor |-> noise_floor]

Returned(op, arg, window_size, r) ==
    /\ energy_history' = r.det.energy_history
    /\ noise_floor' = r.det.noise_floor
    /\ call' = [op |-> op, arg |-> arg, ret |-> r.ret, seen |-> r.seen]
    /\ prev' = call
    /\ det0' = Detector
    /\ ncalls' = ncalls + 1
    /\ observed' = observed \o FramesSeen(samples, window_size, r.seen)
    /\ UNCHANGED <<assistantVars, samples, activation_word, captureVars>>

CallIsVoiceActive ==
    /\ pc = "harness"
    /\ ncalls < MaxCalls
    /\ \E window_size \in 1..MaxWindow :
       \E r \in {is_voice_active(Detector, samples, window_size)} :
          Returned("is_voice_active", window_size, window_size, r)

CallDetectSilence ==
    /\ pc = "harness"
    /\ ncalls < MaxCalls
    /\ \E sample_rate \in 2..MaxRate :
       \E r \in {detect_silence(Detector, samples, sample_rate)} :
          Returned("detect_silence", sample_rate, sample_rate \div 2, r)

NextDetector == CallIsVoiceActive \/ CallDetectSilence

SpecDetector == InitDetector /\ [][NextDetector]_vars

-----------------------------------------------------------------------------
(* Matcher harness: a detector is constructed with any phrase, then        *)
(* matches_wake_word is called on it with any text.                        *)

MatcherAlphabet == {"y", "o", "0", " ", "é"}

Phrases == {<<>>, <<"y">>, <<"y", "o">>, <<"Y", "O">>, <<"é", "o">>,
            <<"o", "y">>}

ExampleTexts ==
    {<<"h", "e", "l", "l", "o", " ", "t", "h", "e", "r", "e">>,
     <<"y", "o", "u">>, <<"y", "e", "a", "h">>, <<"Y", "0">>,
     <<"o", "k", " ", "y", "e", "a", "h">>, <<"h", "e", "y", " ", "y", "a">>}

MatcherTexts == SeqsUpTo(MatcherAlphabet, MaxTextLen) \cup ExampleTexts

InitMatcher ==
    /\ AssistantIdle
    /\ CaptureIdle
    /\ pc = "new"
    /\ activation_word = <<>>
    /\ samples = <<>>
    /\ energy_history = NewDetector.energy_history
    /\ noise_floor = NewDetector.noise_floor
    /\ observed = <<>>
    /\ call = NoCall
    /\ prev = NoCall
    /\ det0 = NewDetector
    /\ ncalls = 0

(* VoiceDetector::new(0.02, 0.5, phrase): every phrase is accepted *)
New ==
    /\ pc = "new"
    /\ \E phrase \in Phrases : activation_word' = NewActivationWord(phrase)
    /\ pc' = "harness"
    /\ UNCHANGED <<state, is_active, command_history, recorded, text, cycles,
                   startState, history0, trace, vadActive, vadSilent,
                   samples, detectorVars, harnessVars, captureVars>>

CallMatchesWakeWord ==
    /\ pc = "harness"
    /\ \E t \in MatcherTexts :
          /\ text' = t
          /\ call' = [op |-> "matches_wake_word", arg |-> 0,
                      ret |-> matches_wake_word(t), seen |-> 0]
    /\ UNCHANGED <<state, is_active, command_history, recorded, pc, cycles,
                   startState, history0, trace, vadActive, vadSilent,
                   samples, detectorVars, prev, det0, ncalls,
                   activation_word, captureVars>>

NextMatcher == New \/ CallMatchesWakeWord

SpecMatcher == InitMatcher /\ [][NextMatcher]_vars

-----------------------------------------------------------------------------
(* audio.rs: the resampling tail of AudioCapture::record.  The source      *)
(* computes ratio, out_len and pos in f32; here the quotients are exact:   *)
(* pos = i / ratio is i * original_rate / 16000, and fract its remainder.  *)

NoOutput == [out |-> <<>>, reads |-> {}, panicked |-> FALSE]

(* Mutant: the edge test admits pos_floor = samples.len() - 1 *)
RECURSIVE ResampleLoop_LateStop(_, _, _, _, _)
ResampleLoop_LateStop(s, rate, out_len, i, acc) ==
    IF i >= out_len THEN acc
    ELSE LET pos_floor == (i * rate) \div TargetRate
             rem == (i * rate) % TargetRate
             touched == acc.reads \cup {pos_floor, pos_floor + 1}
         IN  IF pos_floor >= Len(s) THEN acc
             ELSE IF pos_floor + 1 >= Len(s)
             THEN [acc EXCEPT !.reads = touched, !.panicked = TRUE]
             ELSE ResampleLoop_LateStop(s, rate, out_len, i + 1,
                      [acc EXCEPT
                          !.out = Append(@, (s[pos_floor + 1] * (TargetRate - rem)
                                             + s[pos_floor + 2] * rem)
                                            \div TargetRate),
                          !.reads = touched])

(* for i in 0..out_len { .. }, from index i on.  Indices are 0-based in    *)
(* the source, sequences here are 1-based.  samples.len() - 1 overflows on *)
(* an empty buffer, and samples[..] panics outside the buffer.             *)
RECURSIVE ResampleLoop(_, _, _, _, _)
ResampleLoop(s, rate, out_len, i, acc) ==
    IF i >= out_len THEN acc
    ELSE LET pos_floor == (i * rate) \div TargetRate
             rem == (i * rate) % TargetRate
             touched == acc.reads \cup {pos_floor, pos_floor + 1}
         IN  IF Len(s) = 0 THEN [acc EXCEPT !.panicked = TRUE]
             ELSE IF pos_floor >= Len(s) - 1 THEN acc
             ELSE IF pos_floor + 1 >= Len(s)
             THEN [acc EXCEPT !.reads = touched, !.panicked = TRUE]
             ELSE ResampleLoop(s, rate, out_len, i + 1,
                      [acc EXCEPT
                          !.out = Append(@, (s[pos_floor + 1] * (TargetRate - rem)
                                             + s[pos_floor + 2] * rem)
                                            \div TargetRate),
                          !.reads = touched])

(* Mutant: the edge test admits pos_floor = samples.len() - 1 *)
resample_LateStop(s, rate) ==
    IF rate # TargetRate
    THEN ResampleLoop_LateStop(s, rate, (Len(s) * TargetRate) \div rate, 0,
                               NoOutput)
    ELSE [NoOutput EXCEPT !.out = s]

(* Mutant: the buffer is interpolated also at the target rate *)
resample_AlwaysInterpolates(s, rate) ==
    ResampleLoop(s, rate, (Len(s) * TargetRate) \div rate, 0, NoOutput)

(* if original_rate != 16000 { .. Ok(resampled) } else { Ok(samples) } *)
resample(s, rate) ==
    IF rate # TargetRate
    THEN LET out_len == (Len(s) * TargetRate) \div rate
         IN  ResampleLoop(s, rate, out_len, 0, NoOutput)
    ELSE [NoOutput EXCEPT !.out = s]

(* Device rates: two below the target, the target, three above it *)
Rates == {8000, 12000, 16000, 24000, 44100, 48000}

(* record, from `let original_rate` to its return *)
Resample ==
    /\ pc = "rec_resample"
    /\ \E r \in {resample(samples, original_rate)} :
          /\ resampled' = r.out
          /\ reads' = r.reads
          /\ pc' = IF r.panicked THEN "rec_panic" ELSE "rec_done"
    /\ UNCHANGED <<state, is_active, command_history, recorded, samples,
                   text, cycles, startState, history0, trace, vadActive,
                   vadSilent, detectorVars, harnessVars, activation_word,
                   recording, stream, channel, callback, ncallbacks, sent,
                   original_rate>>

-----------------------------------------------------------------------------
(* audio.rs: AudioCapture::record as two threads.  The control loop runs   *)
(* record step by step (pc); the audio thread runs the data callback, one  *)
(* invocation at a time, whenever the stream exists and has not been       *)
(* dropped.  The callback loads the flag once and then sends its buffer    *)
(* sample by sample, so every step of record can fall between two sends.   *)
(* Whether drop(stream) waits for a running callback is the audio          *)
(* backend's business: here it may or may not.                             *)

(* Raw samples from the device: 0.01, below the gate, and 0.04 *)
RawAmplitudes == {10, 40}

CallbackData ==
    {data \in SeqsUpTo(RawAmplitudes, MaxCallbackLen) : data # <<>>}

Abs(x) == IF x < 0 THEN -x ELSE x

apply_noise_gate(sample) ==
    IF Abs(sample) < NOISE_GATE_THRESHOLD THEN 0 ELSE sample

Gated(raw) == [i \in DOMAIN raw |-> apply_noise_gate(raw[i])]

restVars == <<state, is_active, command_history, recorded, text, cycles,
              startState, history0, trace, vadActive, vadSilent,
              detectorVars, harnessVars, activation_word>>

(* rx lives until record returns *)
ReceiverAlive == pc \notin {"rec_done", "rec_err", "rec_panic"}

(* default_input_device, get_supported_config, mpsc::channel and          *)
(* build_input_stream: any of the three fallible calls may fail           *)
BuildStream ==
    /\ pc = "rec_build"
    /\ \/ /\ pc' = "rec_err"
          /\ UNCHANGED <<stream, original_rate>>
       \/ /\ original_rate' \in Rates
          /\ stream' = "built"
          /\ pc' = "rec_play"
    /\ UNCHANGED <<restVars, samples, recording, channel, callback,
                   ncallbacks, sent, resampled, reads>>

(* stream.play()?: on failure record returns and the stream is dropped *)
Play ==
    /\ pc = "rec_play"
    /\ \/ stream' = "dropped" /\ pc' = "rec_err"
       \/ stream' = "playing" /\ pc' = "rec_start"
    /\ UNCHANGED <<restVars, samples, recording, channel, callback,
                   ncallbacks, sent, original_rate, resampled, reads>>

(* self.start_recording() *)
StartRecording ==
    /\ pc = "rec_start"
    /\ recording' = TRUE
    /\ pc' = "rec_sleep"
    /\ UNCHANGED <<restVars, samples, stream, channel, callback, ncallbacks,
                   sent, original_rate, resampled, reads>>

(* std::thread::sleep(duration) *)
Sleep ==
    /\ pc = "rec_sleep"
    /\ pc' = "rec_stop"
    /\ UNCHANGED <<restVars, samples, captureVars>>

(* self.stop_recording() *)
StopRecording ==
    /\ pc = "rec_stop"
    /\ recording' = FALSE
    /\ pc' = "rec_drop"
    /\ UNCHANGED <<restVars, samples, stream, channel, callback, ncallbacks,
                   sent, original_rate, resampled, reads>>

(* drop(stream) *)
DropStream ==
    /\ pc = "rec_drop"
    /\ stream' = "dropped"
    /\ pc' = "rec_drain"
    /\ UNCHANGED <<restVars, samples, recording, channel, callback,
                   ncallbacks, sent, original_rate, resampled, reads>>

(* rx.try_iter().collect(): one try_recv that finds a sample *)
DrainRecv ==
    /\ pc = "rec_drain"
    /\ channel # <<>>
    /\ samples' = Append(samples, Head(channel))
    /\ channel' = Tail(channel)
    /\ UNCHANGED <<restVars, pc, recording, stream, callback, ncallbacks,
                   sent, original_rate, resampled, reads>>

(* rx.try_iter().collect(): the try_recv that finds the channel empty *)
DrainEnd ==
    /\ pc = "rec_drain"
    /\ channel = <<>>
    /\ pc' = "rec_resample"
    /\ UNCHANGED <<restVars, samples, captureVars>>

(* Mutant: the callback does not consult the flag *)
CallbackBegin_IgnoresFlag ==
    /\ stream \in {"built", "playing"}
    /\ callback.at = "idle"
    /\ ncallbacks < MaxCallbacks
    /\ ncallbacks' = ncallbacks + 1
    /\ \E data \in CallbackData :
          callback' = [at |-> "sending", observed |-> recording, data |-> data]
    /\ UNCHANGED <<restVars, pc, samples, recording, stream, channel, sent,
                   original_rate, resampled, reads>>

(* The data callback is entered: if recording.load(SeqCst) { .. } *)
CallbackBegin ==
    /\ stream \in {"built", "playing"}
    /\ callback.at = "idle"
    /\ ncallbacks < MaxCallbacks
    /\ ncallbacks' = ncallbacks + 1
    /\ \E data \in CallbackData :
          callback' = IF recording
                      THEN [at |-> "sending", observed |-> TRUE, data |-> data]
                      ELSE NoCallback
    /\ UNCHANGED <<restVars, pc, samples, recording, stream, channel, sent,
                   original_rate, resampled, reads>>

(* for &sample in data { let _ = tx.send(apply_noise_gate(sample)); }: one *)
(* iteration; the send fails, and is ignored, once rx is gone              *)
CallbackSend ==
    /\ callback.at = "sending"
    /\ IF ReceiverAlive
       THEN /\ channel' = Append(channel, apply_noise_gate(Head(callback.data)))
            /\ sent' = Append(sent, Head(callback.data))
       ELSE UNCHANGED <<channel, sent>>
    /\ callback' = IF Len(callback.data) = 1 THEN NoCallback
                   ELSE [callback EXCEPT !.data = Tail(@)]
    /\ UNCHANGED <<restVars, pc, samples, recording, stream, ncallbacks,
                   original_rate, resampled, reads>>

InitRecord ==
    /\ AssistantIdle
    /\ CaptureIdle
    /\ activation_word = NewActivationWord(WakePhrase)
    /\ energy_history = NewDetector.energy_history
    /\ noise_floor = NewDetector.noise_floor
    /\ observed = <<>>
    /\ call = NoCall
    /\ prev = NoCall
    /\ det0 = NewDetector
    /\ ncalls = 0
    /\ samples = <<>>
    /\ pc = "rec_build"

NextRecord ==
    \/ BuildStream
    \/ Play
    \/ StartRecording
    \/ Sleep
    \/ StopRecording
    \/ DropStream
    \/ DrainRecv
    \/ DrainEnd
    \/ Resample
    \/ CallbackBegin
    \/ CallbackSend

SpecRecord == InitRecord /\ [][NextRecord]_vars

(* Resampling harness: any drained buffer at any device rate *)
InitResample ==
    /\ AssistantIdle
    /\ activation_word = NewActivationWord(WakePhrase)
    /\ energy_history = NewDetector.energy_history
    /\ noise_floor = NewDetector.noise_floor
    /\ observed = <<>>
    /\ call = NoCall
    /\ prev = NoCall
    /\ det0 = NewDetector
    /\ ncalls = 0
    /\ recording = FALSE
    /\ stream = "dropped"
    /\ channel = <<>>
    /\ callback = NoCallback
    /\ ncallbacks = 0
    /\ samples \in SeqsUpTo(Amplitudes, MaxRecLen)
    /\ sent = samples
    /\ original_rate \in Rates
    /\ resampled = <<>>
    /\ reads = {}
    /\ pc = "rec_resample"

SpecResample == InitResample /\ [][Resample]_vars

-----------------------------------------------------------------------------
(* main.rs: VoiceAssistant.  One action per step of process_interaction    *)
(* that can fail or that hands over to an external collaborator; pc is the *)
(* step the control loop is at, "ok" and "err" the two results             *)
(* process_interaction returns to run.                                     *)

(* What speech_to_text may return: nothing, the wake word, a one-character *)
(* mistranscription of it, and an unrelated word *)
Texts == {<<>>, <<"y", "o">>, <<"Y", "0">>, <<"h", "i">>}

(* What query_llm may return *)
Responses == {<<"o", "k">>}

(* Mutant: the newest entry is dropped at the cap *)
add_to_history_PopBack(history, command, response) ==
    LET pushed == Append(history, <<command, response>>)
    IN  IF Len(pushed) > max_history
        THEN SubSeq(pushed, 1, Len(pushed) - 1)
        ELSE pushed

add_to_history(history, command, response) ==
    LET pushed == Append(history, <<command, response>>)
    IN  IF Len(pushed) > max_history THEN Tail(pushed) ELSE pushed

Init ==
    /\ AssistantIdle
    /\ CaptureIdle
    /\ activation_word = NewActivationWord(WakePhrase)
    /\ pc = "run"
    /\ samples = <<>>
    /\ energy_history = NewDetector.energy_history
    /\ noise_floor = NewDetector.noise_floor
    /\ observed = <<>>
    /\ call = NoCall
    /\ prev = NoCall
    /\ det0 = NewDetector
    /\ ncalls = 0

Log(event) == trace' = Append(trace, event)

Called(event) == \E i \in DOMAIN trace : trace[i] = event

(* run, up to the loop *)
RunStart ==
    /\ pc = "run"
    /\ state' = "AwaitingWakeWord"
    /\ pc' = "loop"
    /\ UNCHANGED <<is_active, command_history, recorded, samples, text,
                   cycles, startState, history0, trace, vadActive, vadSilent,
                   detectorVars, harnessVars, activation_word, captureVars>>

(* process_interaction: the match on self.state and, in the capturing arms, *)
(* audio_capture.record, which fails or returns the conditioned buffer      *)
BeginCycle ==
    /\ pc = "loop"
    /\ cycles < MaxCycles
    /\ cycles' = cycles + 1
    /\ startState' = state
    /\ history0' = command_history
    /\ IF state = "Processing"
       THEN /\ state' = "Listening"
            /\ pc' = "ok"
            /\ UNCHANGED <<samples, trace>>
       ELSE /\ Log("record")
            /\ UNCHANGED state
            /\ \/ /\ pc' = "err"
                  /\ UNCHANGED samples
               \/ /\ samples' \in SeqsUpTo(Amplitudes,
                                  IF state = "Listening" THEN MaxLen
                                  ELSE MaxWakeLen)
                  /\ pc' = IF state = "Listening" THEN "listen_recorded"
                           ELSE "wake_recorded"
    /\ UNCHANGED <<is_active, command_history, recorded, text, vadActive,
                   vadSilent, detectorVars, harnessVars, activation_word,
                   captureVars>>

(* Idle | AwaitingWakeWord: if !samples.is_empty() { save_wav(..)? *)
WakeSave ==
    /\ pc = "wake_recorded"
    /\ IF samples = <<>>
       THEN pc' = "ok" /\ UNCHANGED trace
       ELSE Log("save_wav") /\ pc' \in {"wake_saved", "err"}
    /\ UNCHANGED <<state, is_active, command_history, recorded, samples,
                   text, cycles, startState, history0, vadActive, vadSilent,
                   detectorVars, harnessVars, activation_word, captureVars>>

(* speech_to_text("wake_word.wav")? *)
WakeTranscribe ==
    /\ pc = "wake_saved"
    /\ Log("speech_to_text")
    /\ \/ pc' = "err" /\ UNCHANGED text
       \/ pc' = "wake_text" /\ text' \in Texts
    /\ UNCHANGED <<state, is_active, command_history, recorded, samples,
                   cycles, startState, history0, vadActive, vadSilent,
                   detectorVars, harnessVars, activation_word, captureVars>>

(* Mutant: any non-empty transcription activates *)
WakeMatch_AnyText ==
    /\ pc = "wake_text"
    /\ Log("matches_wake_word")
    /\ IF text # <<>>
       THEN state' = "Listening" /\ is_active' = TRUE
       ELSE UNCHANGED <<state, is_active>>
    /\ pc' = "ok"
    /\ UNCHANGED <<command_history, recorded, samples, text, cycles,
                   startState, history0, vadActive, vadSilent, detectorVars,
                   harnessVars, activation_word, captureVars>>

(* if matches_wake_word(&wake_word_text) { state = Listening; .. } *)
WakeMatch ==
    /\ pc = "wake_text"
    /\ Log("matches_wake_word")
    /\ IF matches_wake_word(text)
       THEN state' = "Listening" /\ is_active' = TRUE
       ELSE UNCHANGED <<state, is_active>>
    /\ pc' = "ok"
    /\ UNCHANGED <<command_history, recorded, samples, text, cycles,
                   startState, history0, vadActive, vadSilent, detectorVars,
                   harnessVars, activation_word, captureVars>>

Bool(b) == IF b THEN "true" ELSE "false"

(* The detector after a call of the control loop returned r *)
DetectorBecomes(r, rmss) ==
    /\ energy_history' = r.det.energy_history
    /\ noise_floor' = r.det.noise_floor
    /\ observed' = observed \o rmss

(* The silence check of the Listening arm, from detector state d *)
SilenceCheck(d, rmss, reset) ==
    \E sil \in {detect_silence(d, samples, SampleRate)} :
        /\ DetectorBecomes(sil,
              rmss \o FramesSeen(samples, SampleRate \div 2, sil.seen))
        /\ vadSilent' = Bool(sil.ret)
        /\ IF reset \/ sil.ret
           THEN state' = "AwaitingWakeWord" /\ is_active' = FALSE
           ELSE UNCHANGED <<state, is_active>>
        /\ pc' = "ok"

(* The Listening arm after record, with its two departures for mutants:    *)
(* skipVad goes on to transcription without the activity check, reset      *)
(* returns to AwaitingWakeWord whatever the silence check says.            *)
ListenDetectWith(skipVad, reset) ==
    /\ pc = "listen_recorded"
    /\ IF samples = <<>>
       THEN /\ trace' = Append(trace, "detect_silence")
            /\ vadActive' = "none"
            /\ SilenceCheck(Detector, <<>>, reset)
       ELSE IF skipVad
       THEN /\ pc' = "listen_active"
            /\ UNCHANGED <<trace, vadActive, vadSilent, state, is_active,
                           detectorVars>>
       ELSE \E act \in {is_voice_active(Detector, samples, FrameWindow)} :
               /\ vadActive' = Bool(act.ret)
               /\ IF ~act.ret
                  THEN /\ trace' = trace \o <<"is_voice_active",
                                              "detect_silence">>
                       /\ SilenceCheck(act.det,
                             FramesSeen(samples, FrameWindow, act.seen), reset)
                  ELSE /\ Log("is_voice_active")
                       /\ DetectorBecomes(act,
                             FramesSeen(samples, FrameWindow, act.seen))
                       /\ pc' = "listen_active"
                       /\ UNCHANGED <<vadSilent, state, is_active>>
    /\ UNCHANGED <<command_history, recorded, samples, text, cycles,
                   startState, history0, harnessVars, activation_word,
                   captureVars>>

(* Mutant: leaves Listening without asking detect_silence's verdict *)
ListenDetect_AlwaysReset == ListenDetectWith(FALSE, TRUE)

(* Mutant: transcribes every non-empty buffer *)
ListenDetect_SkipsVad == ListenDetectWith(TRUE, FALSE)

(* Listening: if samples.is_empty() || !is_voice_active(&samples, 1024) {  *)
(*     if detect_silence(&samples, 16000) { state = AwaitingWakeWord; .. } *)
(*     return Ok(()) }                                                     *)
ListenDetect == ListenDetectWith(FALSE, FALSE)

(* save_wav(&samples, "input.wav")? *)
ListenSave ==
    /\ pc = "listen_active"
    /\ Log("save_wav")
    /\ pc' \in {"listen_saved", "err"}
    /\ UNCHANGED <<state, is_active, command_history, recorded, samples,
                   text, cycles, startState, history0, vadActive, vadSilent,
                   detectorVars, harnessVars, activation_word, captureVars>>

(* speech_to_text("input.wav")? *)
ListenTranscribe ==
    /\ pc = "listen_saved"
    /\ Log("speech_to_text")
    /\ \/ pc' = "err" /\ UNCHANGED text
       \/ pc' = "listen_text" /\ text' \in Texts
    /\ UNCHANGED <<state, is_active, command_history, recorded, samples,
                   cycles, startState, history0, vadActive, vadSilent,
                   detectorVars, harnessVars, activation_word, captureVars>>

(* if !text.is_empty() { state = Processing; .. } else: fall through to    *)
(* state = AwaitingWakeWord; is_active = false                             *)
ListenDispatch ==
    /\ pc = "listen_text"
    /\ IF text # <<>>
       THEN /\ state' = "Processing"
            /\ Log("state:Processing")
            /\ pc' = "processing"
            /\ UNCHANGED is_active
       ELSE /\ state' = "AwaitingWakeWord"
            /\ is_active' = FALSE
            /\ pc' = "ok"
            /\ UNCHANGED trace
    /\ UNCHANGED <<command_history, recorded, samples, text, cycles,
                   startState, history0, vadActive, vadSilent, detectorVars,
                   harnessVars, activation_word, captureVars>>

(* let response = query_llm(&text).await?; add_to_history(text, response) *)
QueryLlm ==
    /\ pc = "processing"
    /\ \/ /\ pc' = "err"
          /\ Log("query_llm")
          /\ UNCHANGED <<command_history, recorded>>
       \/ \E response \in Responses :
             /\ command_history' = add_to_history(command_history, text, response)
             /\ recorded' = Append(recorded, <<text, response>>)
             /\ trace' = trace \o <<"query_llm", "add_to_history">>
             /\ pc' = "speaking"
    /\ UNCHANGED <<state, is_active, samples, text, cycles, startState,
                   history0, vadActive, vadSilent, detectorVars, harnessVars,
                   activation_word, captureVars>>

(* Mutant: Processing hands over to Listening *)
Speak_ToListening ==
    /\ pc = "speaking"
    /\ Log("text_to_speech")
    /\ \/ pc' = "err" /\ UNCHANGED <<state, is_active>>
       \/ pc' = "ok" /\ state' = "Listening" /\ UNCHANGED is_active
    /\ UNCHANGED <<command_history, recorded, samples, text, cycles,
                   startState, history0, vadActive, vadSilent, detectorVars,
                   harnessVars, activation_word, captureVars>>

(* Mutant: the Listening arm ends without leaving Processing *)
Speak_StaysProcessing ==
    /\ pc = "speaking"
    /\ Log("text_to_speech")
    /\ pc' \in {"err", "ok"}
    /\ UNCHANGED <<state, is_active, command_history, recorded, samples, text,
                   cycles, startState, history0, vadActive, vadSilent,
                   detectorVars, harnessVars, activation_word, captureVars>>

(* text_to_speech(&response).await?; then state = AwaitingWakeWord *)
Speak ==
    /\ pc = "speaking"
    /\ Log("text_to_speech")
    /\ \/ pc' = "err" /\ UNCHANGED <<state, is_active>>
       \/ pc' = "ok" /\ state' = "AwaitingWakeWord" /\ is_active' = FALSE
    /\ UNCHANGED <<command_history, recorded, samples, text, cycles,
                   startState, history0, vadActive, vadSilent, detectorVars,
                   harnessVars, activation_word, captureVars>>

(* What every return to the loop head forgets: the locals of the cycle *)
CycleOver ==
    /\ pc' = "loop"
    /\ samples' = <<>>
    /\ text' = <<>>
    /\ startState' = "none"
    /\ history0' = <<>>
    /\ trace' = <<>>
    /\ vadActive' = "none"
    /\ vadSilent' = "none"
    /\ UNCHANGED <<command_history, recorded, cycles, detectorVars,
                   harnessVars, activation_word, captureVars>>

(* Mutant: the error arm only logs and sleeps *)
LoopBack_NoReset ==
    /\ pc \in {"ok", "err"}
    /\ UNCHANGED <<state, is_active>>
    /\ CycleOver

(* run: match process_interaction().await { Ok(_) => (), Err(e) => {       *)
(*     state = AwaitingWakeWord; is_active = false; sleep(1 s) } }         *)
LoopBack ==
    /\ pc \in {"ok", "err"}
    /\ IF pc = "err"
       THEN state' = "AwaitingWakeWord" /\ is_active' = FALSE
       ELSE UNCHANGED <<state, is_active>>
    /\ CycleOver

Next ==
    \/ RunStart
    \/ BeginCycle
    \/ WakeSave
    \/ WakeTranscribe
    \/ WakeMatch
    \/ ListenDetect
    \/ ListenSave
    \/ ListenTranscribe
    \/ ListenDispatch
    \/ QueryLlm
    \/ Speak
    \/ LoopBack

Spec == Init /\ [][Next]_vars

(* A long-running assistant: the control loop is at the head of a cycle    *)
(* after n exchanges were recorded, each by a Listening cycle whose buffer *)
(* turned active at its third loud frame, the first of them after five     *)
(* quiet frames.                                                           *)

PastCommands == <<(<<"y", "o">>), (<<"Y", "0">>), (<<"h", "i">>)>>

PastExchanges(n) ==
    [i \in 1..n |-> <<PastCommands[(i % 3) + 1], <<"o", "k">> >>]

RECURSIVE Replay(_)
Replay(pairs) ==
    IF pairs = <<>> THEN <<>>
    ELSE LET last == pairs[Len(pairs)]
         IN  add_to_history(Replay(SubSeq(pairs, 1, Len(pairs) - 1)),
                            last[1], last[2])

PastLens == {max_history - 1, max_history + 2}

InitHistory ==
    /\ CaptureIdle
    /\ activation_word = NewActivationWord(WakePhrase)
    /\ state = "AwaitingWakeWord"
    /\ is_active = FALSE
    /\ pc = "loop"
    /\ samples = <<>>
    /\ text = <<>>
    /\ cycles = 0
    /\ startState = "none"
    /\ history0 = <<>>
    /\ trace = <<>>
    /\ vadActive = "none"
    /\ vadSilent = "none"
    /\ \E n \in PastLens :
          /\ recorded = PastExchanges(n)
          /\ command_history = Replay(PastExchanges(n))
          /\ observed = Prefill(5 + 3 * n, 5)
          /\ \E d \in {Observe(Prefill(5 + 3 * n, 5))} :
                /\ energy_history = d.energy_history
                /\ noise_floor = d.noise_floor
    /\ call = NoCall
    /\ prev = NoCall
    /\ det0 = NewDetector
    /\ ncalls = 0

NextHistory ==
    \/ BeginCycle
    \/ WakeSave
    \/ WakeTranscribe
    \/ WakeMatch
    \/ ListenDetect
    \/ ListenSave
    \/ ListenTranscribe
    \/ ListenDispatch
    \/ QueryLlm
    \/ Speak
    \/ LoopBack

SpecHistory == InitHistory /\ [][NextHistory]_vars

(* The control loop is never suspended for good between a failed cycle and *)
(* the next one: the error arm sleeps one second and loops                 *)
FairSpec == Spec /\ WF_vars(LoopBack)

-----------------------------------------------------------------------------
(* What the claims about the conversation state machine speak of *)

Before(first, second) ==
    \E i, j \in DOMAIN trace :
        i < j /\ trace[i] = first /\ trace[j] = second

CycleEnded == pc = "ok"

(* C1: a cycle that fails at any step, in whatever state it had reached,   *)
(* does not end the control loop: the very next step is the loop's error   *)
(* arm, which resets the state to AwaitingWakeWord and returns to the loop *)
(* head, and that step is always taken.                                    *)
C1_FailureResetsAndLoops ==
    /\ [][pc = "err" => (pc' = "loop" /\ state' = "AwaitingWakeWord")]_vars
    /\ [](pc = "err" => <>(pc = "loop" /\ state = "AwaitingWakeWord"))

(* C1 witness: speech output failed while the state was Processing *)
C1_Witness ==
    /\ pc = "err"
    /\ state = "Processing"
    /\ Called("text_to_speech")

(* C2: a cycle that starts in AwaitingWakeWord and does not fail ends in   *)
(* Listening iff the buffer was non-empty and the matcher matched the      *)
(* transcribed text, and in AwaitingWakeWord otherwise.                    *)
C2_WakeCycle ==
    (CycleEnded /\ startState = "AwaitingWakeWord") =>
        state = IF samples # <<>> /\ matches_wake_word(text)
                THEN "Listening" ELSE "AwaitingWakeWord"

(* C2 witness: a one-character mistranscription of the wake word activated *)
C2_Witness ==
    /\ CycleEnded
    /\ startState = "AwaitingWakeWord"
    /\ state = "Listening"
    /\ text = <<"Y", "0">>

(* C3: a Listening cycle whose buffer is empty or inactive calls no        *)
(* collaborator and records nothing; it ends in AwaitingWakeWord if the    *)
(* silence check reported silence and in Listening otherwise; an empty or  *)
(* all-zero buffer always ends in AwaitingWakeWord.                        *)
C3_InactiveListening ==
    (CycleEnded /\ startState = "Listening"
        /\ (samples = <<>> \/ vadActive = "false")) =>
        /\ ~Called("speech_to_text")
        /\ ~Called("query_llm")
        /\ ~Called("text_to_speech")
        /\ ~Called("add_to_history")
        /\ command_history = history0
        /\ vadSilent \in {"true", "false"}
        /\ state = IF vadSilent = "true"
                   THEN "AwaitingWakeWord" ELSE "Listening"
        /\ AllZero(samples) => state = "AwaitingWakeWord"

(* C3 witness: an inactive buffer that is not silent kept the machine in   *)
(* Listening                                                               *)
C3_Witness ==
    /\ CycleEnded
    /\ startState = "Listening"
    /\ vadActive = "false"
    /\ vadSilent = "false"
    /\ state = "Listening"

(* C3 witness: an all-zero buffer on a detector that earlier cycles        *)
(* adapted                                                                 *)
C3_WitnessZero ==
    /\ CycleEnded
    /\ startState = "Listening"
    /\ samples # <<>>
    /\ AllZero(samples)
    /\ Len(energy_history) > 2 * Len(samples)
    /\ state = "AwaitingWakeWord"

(* C4: a Listening cycle with a non-empty active buffer that does not fail *)
(* ends in AwaitingWakeWord; it went through Processing iff the text was   *)
(* non-empty, and with an empty text it called neither the reasoning nor   *)
(* the speech-output collaborator.                                         *)
C4_ActiveListening ==
    (CycleEnded /\ startState = "Listening" /\ samples # <<>>
        /\ vadActive = "true") =>
        /\ state = "AwaitingWakeWord"
        /\ text # <<>> => /\ Called("state:Processing")
                          /\ Called("query_llm")
                          /\ Called("text_to_speech")
        /\ text = <<>> => /\ ~Called("state:Processing")
                          /\ ~Called("query_llm")
                          /\ ~Called("text_to_speech")

C4_Witness ==
    /\ CycleEnded
    /\ startState = "Listening"
    /\ vadActive = "true"
    /\ text # <<>>
    /\ Called("state:Processing")
    /\ state = "AwaitingWakeWord"

C4_WitnessEmptyText ==
    /\ CycleEnded
    /\ startState = "Listening"
    /\ vadActive = "true"
    /\ Called("speech_to_text")
    /\ text = <<>>
    /\ state = "AwaitingWakeWord"

(* C5 as stated: in every cycle speech_to_text is called only after the    *)
(* VAD reported the buffer active.                                         *)
C5_SttOnlyAfterActive ==
    Called("speech_to_text") =>
        (vadActive = "true" /\ Before("is_voice_active", "speech_to_text"))

(* C5 amended: in a Listening cycle speech_to_text is called only after    *)
(* is_voice_active reported the buffer active; in an AwaitingWakeWord      *)
(* cycle the VAD is not consulted and speech_to_text is called only for a  *)
(* non-empty buffer.                                                       *)
C5_SttGate ==
    /\ (startState = "Listening" /\ Called("speech_to_text")) =>
          (vadActive = "true" /\ Before("is_voice_active", "speech_to_text"))
    /\ startState = "AwaitingWakeWord" =>
          /\ ~Called("is_voice_active")
          /\ ~Called("detect_silence")
          /\ vadActive = "none"
          /\ Called("speech_to_text") => samples # <<>>

C5_Witness ==
    /\ startState = "Listening"
    /\ Called("speech_to_text")
    /\ vadActive = "true"

C5_WitnessWake ==
    /\ startState = "AwaitingWakeWord"
    /\ Called("speech_to_text")
    /\ vadActive = "none"

-----------------------------------------------------------------------------
(* What the claims about the detector speak of *)

LastN(s, n) == IF Len(s) <= n THEN s ELSE SubSeq(s, Len(s) - n + 1, Len(s))

CountBelow(h, v) == Cardinality({i \in DOMAIN h : h[i] < v})
CountUpTo(h, v) == Cardinality({i \in DOMAIN h : h[i] <= v})

(* TRUE iff v is the element at index max(1, floor(len * 0.1)) - 1 of the  *)
(* ascending-sorted h: fewer than rank elements are below it and at least  *)
(* rank elements are at most it.                                           *)
IsTenthPercentile(h, v) ==
    LET rank == Max(1, Len(h) \div 10)
    IN  /\ v \in Range(h)
        /\ CountBelow(h, v) < rank
        /\ CountUpTo(h, v) >= rank

(* The history after frames 1..j of buffer s were observed from history h *)
HistoryAfter(h, s, window_size, j) ==
    LastN(h \o FramesSeen(s, window_size, j), history_size)

(* Frame j is above max(energy_threshold, 2.5 * floor), the floor being    *)
(* the 10th percentile of the history that already holds frame j           *)
FrameActive(h, s, window_size, j) ==
    LET rms == calculate_rms(Chunk(s, window_size, j))
    IN  \E floor \in Range(HistoryAfter(h, s, window_size, j)) :
            /\ IsTenthPercentile(HistoryAfter(h, s, window_size, j), floor)
            /\ 10 * rms > 10 * energy_threshold
            /\ 10 * rms > 25 * floor

HasActiveRun(h, s, window_size) ==
    \E k \in consecutive_threshold..NumChunks(s, window_size) :
        \A j \in (k - consecutive_threshold + 1)..k :
            FrameActive(h, s, window_size, j)

(* C6: is_voice_active returns true exactly when some run of               *)
(* consecutive_threshold consecutive frames each has an RMS strictly above *)
(* max(energy_threshold, 2.5 * noise floor), the floor taken after the     *)
(* frame was fed to the tracker; otherwise it returns false.               *)
C6_ActiveIffRun ==
    call.op = "is_voice_active" =>
        call.ret = HasActiveRun(det0.energy_history, samples, call.arg)

(* C6 witness: a call on an adapted detector returned true, and another    *)
(* buffer with three loud frames that are not consecutive returned false   *)
C6_Witness ==
    /\ call.op = "is_voice_active"
    /\ call.ret
    /\ det0.energy_history # <<>>

C6_WitnessBrokenRun ==
    /\ call.op = "is_voice_active"
    /\ ~call.ret
    /\ call.arg = 1
    /\ Cardinality({j \in DOMAIN samples :
            FrameActive(det0.energy_history, samples, 1, j)}) >= consecutive_threshold

(* C7: from every detector state, an all-zero buffer of any length, the    *)
(* empty one included, is inactive for is_voice_active and silent for      *)
(* detect_silence.                                                         *)
C7_SilentBuffer ==
    AllZero(samples) =>
        /\ call.op = "is_voice_active" => call.ret = FALSE
        /\ call.op = "detect_silence" => call.ret = TRUE

C7_Witness ==
    /\ AllZero(samples)
    /\ samples # <<>>
    /\ call.op = "detect_silence"
    /\ call.ret
    /\ prev.op = "is_voice_active"
    /\ ~prev.ret
    /\ Len(energy_history) = history_size

(* C8: detect_silence(buffer, sample_rate) returns the negation of what    *)
(* is_voice_active(buffer, w) returns from the same detector state, with   *)
(* w = sample_rate * 0.5 truncated, and leaves the history and the floor   *)
(* exactly as that call does.                                              *)
C8_SilenceIsNegatedActivity ==
    call.op = "detect_silence" =>
        LET r == is_voice_active(det0, samples, call.arg \div 2)
        IN  /\ call.ret = ~r.ret
            /\ energy_history = r.det.energy_history
            /\ noise_floor = r.det.noise_floor

(* C8 witness: is_voice_active then detect_silence on the same buffer, the *)
(* second run from the state the first adapted, and the two results are    *)
(* not complementary                                                       *)
C8_Witness ==
    /\ call.op = "detect_silence"
    /\ prev.op = "is_voice_active"
    /\ call.ret = prev.ret
    /\ det0.energy_history # <<>>

(* C9: the energy history never holds more than history_size values, and   *)
(* it is the most recent min(n, history_size) observed RMS values in       *)
(* observation order.                                                      *)
C9_HistoryIsRecentWindow ==
    /\ Len(energy_history) <= history_size
    /\ energy_history = LastN(observed, history_size)

C9_Witness ==
    /\ Len(observed) > history_size + 1
    /\ energy_history # SubSeq(observed, 1, history_size)

(* C10: before any observation the floor is the default; after one it is   *)
(* the element at index max(1, floor(len * 0.1)) - 1 of the sorted         *)
(* history, and so a value the history holds.                              *)
C10_FloorIsTenthPercentile ==
    /\ observed = <<>> => noise_floor = DefaultNoiseFloor
    /\ observed # <<>> => /\ IsTenthPercentile(energy_history, noise_floor)
                          /\ noise_floor \in Range(energy_history)

C10_Witness ==
    /\ call.op # "none"
    /\ Len(energy_history) = history_size
    /\ noise_floor > 0
    /\ 0 \in Range(energy_history)

C10_WitnessDefault ==
    /\ call.op # "none"
    /\ observed = <<>>
    /\ noise_floor = DefaultNoiseFloor

-----------------------------------------------------------------------------
(* What the claims about the matcher speak of *)

(* The whitespace-separated words of t, as index pairs *)
IsWord(t, i, j) ==
    /\ i <= j
    /\ \A k \in i..j : t[k] # " "
    /\ i = 1 \/ t[i - 1] = " "
    /\ j = Len(t) \/ t[j + 1] = " "

Remove(s, k) == SubSeq(s, 1, k - 1) \o SubSeq(s, k + 1, Len(s))

(* One insertion, deletion or substitution, or none, turns a into b *)
WithinOneEdit(a, b) ==
    \/ a = b
    \/ Len(a) = Len(b) /\ Cardinality({k \in DOMAIN a : a[k] # b[k]}) = 1
    \/ Len(a) = Len(b) + 1 /\ \E k \in DOMAIN a : Remove(a, k) = b
    \/ Len(b) = Len(a) + 1 /\ \E k \in DOMAIN b : Remove(b, k) = a

Confusables ==
    {<<"y", "o">>, <<"y", "o", "o">>, <<"y", "o", "u">>,
     <<"y", "e", "a", "h">>}

(* The three tiers, the length of a word measured by WordLength *)
ThreeTiers(t, phrase, WordLength(_)) ==
    LET lowered == to_lowercase(t)
    IN  \/ \E i \in 1..(Len(lowered) + 1), j \in 0..Len(lowered) :
              SubSeq(lowered, i, j) = phrase
        \/ \E i, j \in DOMAIN lowered :
              /\ IsWord(lowered, i, j)
              /\ WordLength(SubSeq(lowered, i, j)) >= 2
              /\ WithinOneEdit(SubSeq(lowered, i, j), phrase)
        \/ \E i, j \in DOMAIN lowered : SubSeq(lowered, i, j) \in Confusables

MatcherReturned == pc = "harness" /\ call.op = "matches_wake_word"

(* C11: matches_wake_word returns true exactly when the lowercased text    *)
(* contains the activation phrase, or one of its words of at least two     *)
(* characters is within one edit of the phrase, or it contains one of      *)
(* "yo", "yoo", "you", "yeah".                                             *)
C11_ThreeTierMatch ==
    MatcherReturned => (call.ret <=> ThreeTiers(text, activation_word, Len))

(* The same with a word's length taken in bytes, as str::len does *)
C11_ThreeTierMatchByteLength ==
    MatcherReturned =>
        (call.ret <=> ThreeTiers(text, activation_word, str_len))

(* The claim's examples, with the phrase "yo" *)
C11_Examples ==
    MatcherReturned /\ activation_word = <<"y", "o">> =>
        /\ text \in {<<"y", "o">>, <<"y", "0">>, <<"Y", "0">>, <<"y", "o", "u">>,
                      <<"y", "e", "a", "h">>} => call.ret
        /\ text = <<"h", "e", "l", "l", "o", " ", "t", "h", "e", "r", "e">>
              => ~call.ret

(* C12: no constructed detector has an empty activation phrase, with which *)
(* the matcher matches every text.                                         *)
C12_EmptyPhraseRejected ==
    pc = "harness" =>
        ~(activation_word = <<>> /\ \A t \in MatcherTexts : matches_wake_word(t))

-----------------------------------------------------------------------------
(* What the claims about resampling speak of *)

RecordReturned == pc = "rec_done"

FloorLength == (Len(samples) * TargetRate) \div original_rate

(* ceil((len - 1) * 16000 / original_rate): the output indices whose       *)
(* source position lies before the last sample                             *)
EdgeLength ==
    IF samples = <<>> THEN 0
    ELSE ((Len(samples) - 1) * TargetRate + original_rate - 1)
             \div original_rate

PosFloor(i) == (i * original_rate) \div TargetRate

C16_ReadsInsideBuffer ==
    pc \in {"rec_done", "rec_panic"} =>
        /\ pc = "rec_done"
        /\ samples = <<>> => resampled = <<>>
        /\ \A k \in reads : k \in 0..(Len(samples) - 1)
        /\ original_rate # TargetRate =>
              /\ \A i \in 0..(Len(resampled) - 1) :
                    /\ PosFloor(i) < Len(samples) - 1
                    /\ {PosFloor(i), PosFloor(i) + 1} \subseteq reads
              /\ Len(resampled) <= FloorLength
              /\ Len(resampled) < FloorLength =>
                    PosFloor(Len(resampled)) >= Len(samples) - 1

(* C16 witness: the last sample of the buffer was read, then emission      *)
(* stopped at the edge                                                     *)
C16_Witness ==
    /\ RecordReturned
    /\ Len(samples) - 1 \in reads
    /\ Len(resampled) < FloorLength

(* C16 witness: an empty buffer at a rate that is resampled *)
C16_WitnessEmpty ==
    /\ RecordReturned
    /\ samples = <<>>
    /\ original_rate # TargetRate
    /\ resampled = <<>>

-----------------------------------------------------------------------------
(* C14: the command history never holds more than max_history entries, and *)
(* it is the most recent min(n, max_history) of the n pairs recorded so    *)
(* far, in recording order.                                                *)
C14_HistoryIsRecentPairs ==
    /\ Len(command_history) <= max_history
    /\ command_history = LastN(recorded, max_history)

(* C14 witness: a cycle recorded the pair that took the history over its   *)
(* cap, and the oldest pair is the one that went                           *)
C14_Witness ==
    /\ Called("add_to_history")
    /\ Len(history0) = max_history
    /\ Len(command_history) = max_history
    /\ command_history[1] = history0[2]
    /\ command_history[1] # history0[1]
    /\ command_history[max_history] = recorded[Len(recorded)]

-----------------------------------------------------------------------------
(* A cycle of the kind that records: Listening, active buffer, some text *)
RecordingCycle ==
    /\ startState = "Listening"
    /\ samples # <<>>
    /\ vadActive = "true"
    /\ text # <<>>

(* C15: a history entry is recorded only in a Listening cycle with an      *)
(* active buffer and non-empty text, after the dispatch to the reasoning   *)
(* and to the speech-output collaborator and before the transition to      *)
(* AwaitingWakeWord; a cycle of that kind that ends has recorded one.      *)
C15_RecordedAfterBothDispatches ==
    /\ Called("add_to_history") =>
          /\ RecordingCycle
          /\ Before("query_llm", "add_to_history")
          /\ Before("text_to_speech", "add_to_history")
    /\ (startState # "none" /\ ~Called("add_to_history")) =>
          command_history = history0
    /\ (CycleEnded /\ RecordingCycle) => Called("add_to_history")

(* What the code does instead: the entry is recorded between the two       *)
(* dispatches, while the state is Processing, and it stays if speech       *)
(* output then fails.                                                      *)
C15_RecordedBeforeSpeech ==
    /\ Called("add_to_history") =>
          /\ RecordingCycle
          /\ Before("state:Processing", "add_to_history")
          /\ Before("query_llm", "add_to_history")
          /\ ~Before("text_to_speech", "add_to_history")
          /\ command_history = add_to_history(history0, text, <<"o", "k">>)
    /\ (startState # "none" /\ ~Called("add_to_history")) =>
          command_history = history0
    /\ Called("text_to_speech") => Before("add_to_history", "text_to_speech")
    /\ (CycleEnded /\ RecordingCycle) => Called("add_to_history")

(* Speech output failed and the pair is in the history *)
C15_SpeechFailedAfterRecord ==
    /\ pc = "err"
    /\ Called("text_to_speech")
    /\ command_history # history0

-----------------------------------------------------------------------------
(* What the claims about the frames of one call speak of *)

(* The window and the activity verdict of the last detector call *)
CallWindow == IF call.op = "detect_silence" THEN call.arg \div 2 ELSE call.arg

CallActive == IF call.op = "detect_silence" THEN ~call.ret ELSE call.ret

DetectorReturned == call.op \in {"is_voice_active", "detect_silence"}

(* Frame k completes the first run of consecutive_threshold active frames *)
CompletesFirstRun(h, s, window_size, k) ==
    /\ k \in consecutive_threshold..NumChunks(s, window_size)
    /\ \A j \in (k - consecutive_threshold + 1)..k :
          FrameActive(h, s, window_size, j)
    /\ \A m \in consecutive_threshold..(k - 1) :
          \E j \in (m - consecutive_threshold + 1)..m :
              ~FrameActive(h, s, window_size, j)

(* C17: a call that finds the buffer active at frame k leaves the history  *)
(* as frames 1..k, and no later frame, make it, and the floor as frame k   *)
(* computed it; a call that finds it inactive has fed every frame, the     *)
(* final partial one included, once and in order.                          *)
C17_EarlyReturnFrameEffect ==
    DetectorReturned =>
        LET h == det0.energy_history
            n == NumChunks(samples, CallWindow)
        IN  /\ CallActive =>
                  /\ CompletesFirstRun(h, samples, CallWindow, call.seen)
                  /\ energy_history
                        = HistoryAfter(h, samples, CallWindow, call.seen)
                  /\ IsTenthPercentile(energy_history, noise_floor)
            /\ ~CallActive =>
                  /\ call.seen = n
                  /\ energy_history = HistoryAfter(h, samples, CallWindow, n)
                  /\ n > 0 => IsTenthPercentile(energy_history, noise_floor)
                  /\ n = 0 => noise_floor = det0.noise_floor
                  /\ n * CallWindow >= Len(samples)

(* C17 witness: the buffer turned active before its last frame, and the    *)
(* history is shorter than it would be with that frame                     *)
C17_Witness ==
    /\ DetectorReturned
    /\ CallActive
    /\ call.seen < NumChunks(samples, CallWindow)
    /\ Len(energy_history) < history_size

(* C17 witness: an inactive buffer whose last frame is a partial one *)
C17_WitnessPartialFrame ==
    /\ DetectorReturned
    /\ ~CallActive
    /\ Len(samples) % CallWindow # 0
    /\ call.seen = (Len(samples) \div CallWindow) + 1

-----------------------------------------------------------------------------
(* A detector that has observed no frame yet *)
WasFresh == det0 = NewDetector /\ ncalls = 1 /\ Len(observed) = call.seen

SameRms(s, window_size) ==
    \A i, j \in 1..NumChunks(s, window_size) :
        calculate_rms(Chunk(s, window_size, i))
            = calculate_rms(Chunk(s, window_size, j))

(* C20: on a detector that has observed nothing, a buffer whose frames all *)
(* have the same RMS is inactive however loud and however long it is, and  *)
(* no buffer is active before its frame consecutive_threshold + 1: the     *)
(* first frame a detector observes never counts as active.                 *)
C20_FirstFrameNeverActive ==
    (DetectorReturned /\ WasFresh) =>
        /\ SameRms(samples, CallWindow) => ~CallActive
        /\ CallActive => call.seen > consecutive_threshold
        /\ ~FrameActive(<<>>, samples, CallWindow, 1)

(* C20 witness: more loud frames of one RMS than the history holds, on a   *)
(* fresh detector                                                          *)
C20_Witness ==
    /\ DetectorReturned
    /\ WasFresh
    /\ SameRms(samples, CallWindow)
    /\ NumChunks(samples, CallWindow) > history_size
    /\ calculate_rms(Chunk(samples, CallWindow, 1)) > energy_threshold
    /\ ~CallActive

(* C20 witness: a fresh detector found a buffer active at its fourth       *)
(* frame, the first frame being loud too                                   *)
C20_WitnessActive ==
    /\ DetectorReturned
    /\ WasFresh
    /\ CallActive
    /\ call.seen = consecutive_threshold + 1
    /\ calculate_rms(Chunk(samples, CallWindow, 1)) > energy_threshold

-----------------------------------------------------------------------------
(* C19: once run has entered its loop the state is never Idle again; every *)
(* cycle begins in AwaitingWakeWord or in Listening; and Processing is     *)
(* held only between the dispatch and the end of a Listening cycle, so no  *)
(* cycle begins in it.                                                     *)
C19_CycleStartsAwaitingOrListening ==
    /\ pc # "run" => state # "Idle"
    /\ pc = "loop" => state \in {"AwaitingWakeWord", "Listening"}
    /\ startState \in {"none", "AwaitingWakeWord", "Listening"}
    /\ state = "Processing" =>
          /\ startState = "Listening"
          /\ pc \in {"processing", "speaking", "err"}

(* C19 witness: the loop is at the head of a cycle, in Listening, after a  *)
(* cycle that went through Processing and recorded its exchange            *)
C19_Witness ==
    /\ pc = "loop"
    /\ state = "Listening"
    /\ recorded # <<>>

(* C19 witness: a cycle failed while it held Processing *)
C19_WitnessFailedInProcessing ==
    /\ pc = "err"
    /\ state = "Processing"
    /\ ~Called("add_to_history")

-----------------------------------------------------------------------------
(* C18: in every interleaving of the data callback with record, what has   *)
(* been drained followed by what is still queued is the gated samples      *)
(* sent so far, once each and in the order sent; when the drain finds the  *)
(* channel empty the buffer is everything sent up to then; and a sample is *)
(* sent only by a callback that loaded the recording flag as set.          *)
C18_DrainIsWhatWasSent ==
    /\ [](samples \o channel = Gated(sent))
    /\ [][(pc = "rec_drain" /\ pc' = "rec_resample")
            => samples' = Gated(sent')]_vars
    /\ [][sent' # sent => callback.observed]_vars

(* C18 witness: record returned samples of more than one callback, one of  *)
(* them silenced by the gate, while another callback found the flag clear  *)
C18_Witness ==
    /\ pc = "rec_done"
    /\ Len(samples) > MaxCallbackLen
    /\ ncallbacks = MaxCallbacks
    /\ Len(sent) <= MaxCallbackLen * (MaxCallbacks - 1)
    /\ 0 \in Range(samples)
    /\ 10 \in Range(sent)

(* C18 witness: the flag was cleared while a callback was sending *)
C18_WitnessFlagClearedMidCallback ==
    /\ pc = "rec_drop"
    /\ ~recording
    /\ callback.at = "sending"
    /\ sent # <<>>

(* C18 witness: a callback outlived the drain and queued a sample that     *)
(* record does not return                                                  *)
C18_WitnessSentAfterDrain ==
    /\ pc = "rec_done"
    /\ channel # <<>>

====
